---- MODULE Spec2Model ----
(***************************************************************************)
(* Transactional order fulfilment of go-ai-store: the cart aggregate, the  *)
(* cart-to-order conversion under row locks, the idempotency registry and  *)
(* the order lifecycle, as the services issue their storage statements.    *)
(*                                                                         *)
(* Every request runs on its own worker (a member of Procs).  A worker     *)
(* takes one step per storage statement that reads or writes mutable rows; *)
(* statements that read rows no operation ever changes (the cart row of a  *)
(* user, the items of an order) are folded into the neighbouring step.     *)
(* A cart's id is its user's id (carts.user_id is UNIQUE) and a cart       *)
(* item's id is its (cart, product) pair (UNIQUE(cart_id, product_id)).    *)
(***************************************************************************)
EXTENDS Integers, Sequences, FiniteSets, TLC

Users == {1, 2}
Products == {1, 2}
Procs == {1, 2}
Keys == {"k1"}
NoKey == ""

MaxStock == 2
MaxQty == 2
MaxOrders == 2
StockLimit == 4
MaxRequests == 4
MaxPrice == 2
OrderCalls == 2
CartCalls == 3
LifecycleCalls == 4
CancelCalls == 3

OrderStatusPending == "pending"
OrderStatusCancelled == "cancelled"
Statuses == {"pending", "confirmed", "shipped", "delivered", "cancelled"}
StatusInputs == Statuses \cup {"refunded"}

VARIABLES
    stock,      \* products.stock, per product row
    deleted,    \* products whose deleted_at is set
    initStock,  \* the stock each product started with (never written)
    price,      \* products.price, per product row
    carts,      \* the number of carts rows of each user
    cartItems,  \* cart_items rows: <<cart, product>> -> [st, qty, n], n the number of rows
    orders,     \* orders rows with their order_items, by order id
    idem,       \* order_idempotency_keys: <<user, key>> -> -1 absent, 0 no order_id, n order id
    locks,      \* product row locks: product -> holding worker, 0 when free
    proc,       \* each worker's request: operation, arguments, locals, position, result
    prev,       \* the last request completed, kept by ReturnRecord only
    nreq        \* the number of requests accepted so far

vars == <<stock, deleted, initStock, price, carts, cartItems, orders, idem, locks, proc, prev, nreq>>

NoItems == [p \in Products |-> 0]
NoSnap == [p \in Products |-> 0]
NoRow == [st |-> "none", qty |-> 0, n |-> 0]

IdleRec ==
    [pc |-> "idle", op |-> "none", user |-> 0, key |-> NoKey, cart |-> 0, prod |-> 0,
     qty |-> 0, seen |-> 0, ord |-> 0, items |-> NoItems, rows |-> {}, snap |-> NoSnap,
     result |-> "none", oid |-> 0, created |-> 0, stock0 |-> NoSnap, status0 |-> "none",
     status |-> "none", isAdmin |-> FALSE]

NoPrev ==
    [op |-> "none", user |-> 0, key |-> NoKey, prod |-> 0, ord |-> 0, result |-> "none",
     oid |-> 0, created |-> 0, stock |-> NoSnap]

(***************************************************************************)
(* Storage statements, as functions of the tables they read or write.      *)
(***************************************************************************)

\* GetCartByUserID: the user's cart row is found.
GetCartByUserID(c, u) == c[u] > 0

\* The INSERT with no unique constraint on user_id.
CreateCartNotUnique(c, u) == [c EXCEPT ![u] = @ + 1]

\* CreateCart: INSERT INTO carts, refused by the UNIQUE user_id when a row exists.
CreateCart(c, u) == IF c[u] = 0 THEN [c EXCEPT ![u] = 1] ELSE c

\* ListCartItems: the active items of a cart, product -> quantity (0: no item).
ListCartItems(ci, cart) ==
    [p \in Products |-> IF ci[<<cart, p>>].st = "active" THEN ci[<<cart, p>>].qty ELSE 0]

\* GetCartItem / GetCartItemByID: the row is returned when it is active.
GetCartItem(ci, cart, p) == ci[<<cart, p>>].st = "active"

\* cart_items.quantity INTEGER NOT NULL CHECK (quantity > 0).
QuantityCheck(q) == q > 0

\* UpdateCartItemQuantity ... WHERE id = $1 AND deleted_at IS NULL.
UpdateCartItemQuantity(ci, cart, p, q) ==
    IF ci[<<cart, p>>].st = "active" /\ QuantityCheck(q)
    THEN [ci EXCEPT ![<<cart, p>>].qty = q]
    ELSE ci

\* The restored row keeping its old quantity and adding the new one to it.
RestoreCartItemAdding(ci, cart, p, q) ==
    IF ci[<<cart, p>>].st = "deleted"
    THEN [ci EXCEPT ![<<cart, p>>] = [@ EXCEPT !.st = "active", !.qty = @ + q]]
    ELSE ci

\* RestoreCartItem ... WHERE cart_id, product_id AND deleted_at IS NOT NULL.
RestoreCartItem(ci, cart, p, q) ==
    IF ci[<<cart, p>>].st = "deleted"
    THEN [ci EXCEPT ![<<cart, p>>] = [@ EXCEPT !.st = "active", !.qty = q]]
    ELSE ci

\* The INSERT with no unique constraint on (cart_id, product_id).
CreateCartItemNotUnique(ci, cart, p, q) ==
    [ci EXCEPT ![<<cart, p>>] = [st |-> "active", qty |-> q, n |-> @.n + 1]]

\* CreateCartItem: INSERT, refused by UNIQUE(cart_id, product_id) when any row exists.
CreateCartItem(ci, cart, p, q) ==
    IF ci[<<cart, p>>].n = 0
    THEN [ci EXCEPT ![<<cart, p>>] = [st |-> "active", qty |-> q, n |-> 1]]
    ELSE ci

\* SoftDeleteCartItem ... WHERE id = $1 AND deleted_at IS NULL.
SoftDeleteCartItem(ci, cart, p) ==
    IF ci[<<cart, p>>].st = "active"
    THEN [ci EXCEPT ![<<cart, p>>].st = "deleted"]
    ELSE ci

\* The UPDATE without its cart_id condition.
SoftDeleteCartItemsOfEveryCart(ci, cart) ==
    [id \in DOMAIN ci |->
        IF ci[id].st = "active" THEN [ci[id] EXCEPT !.st = "deleted"] ELSE ci[id]]

\* SoftDeleteCartItemsByCartID ... WHERE cart_id = $1 AND deleted_at IS NULL.
SoftDeleteCartItemsByCartID(ci, cart) ==
    [id \in DOMAIN ci |->
        IF id[1] = cart /\ ci[id].st = "active"
        THEN [ci[id] EXCEPT !.st = "deleted"]
        ELSE ci[id]]

\* GetProductByID ... WHERE id = $1 AND deleted_at IS NULL: the row is found.
GetProductByID(del, p) == p \notin del

\* UpdateProductStock ... SET stock = $2 WHERE id = $1 AND deleted_at IS NULL.
UpdateProductStock(st, p, v) == [st EXCEPT ![p] = v]

\* GetOrderByID ... WHERE id = $1 AND deleted_at IS NULL: the row is found.
GetOrderByID(os, o) == o \in 1..Len(os)

\* The UPDATE leaving the status as it was.
UpdateOrderStatusRowKept(os, o, s) == os

\* The UPDATE writing the order's total as well.
UpdateOrderStatusRowResettingTotal(os, o, s) == [os EXCEPT ![o].status = s, ![o].total = 0]

\* UpdateOrderStatus ... SET status = $2 WHERE id = $1.
UpdateOrderStatusRow(os, o, s) == [os EXCEPT ![o].status = s]

\* Every string taken as a status.
isValidOrderStatusAny(s) == TRUE

\* isValidOrderStatus
isValidOrderStatus(s) == s \in Statuses

\* The products of a quantity map, in ascending order of id.
RECURSIVE SeqOfSet(_)
SeqOfSet(S) ==
    IF S = {} THEN <<>>
    ELSE LET m == CHOOSE x \in S : \A y \in S : x <= y
         IN <<m>> \o SeqOfSet(S \ {m})

ProductIDs(items) == {p \in Products : items[p] > 0}

\* CreateOrderFromCart's totalAmount: the sum over the cart items of the
\* product's price times the item's quantity.
RECURSIVE TotalAmount(_, _, _)
TotalAmount(ids, items, pr) ==
    IF ids = <<>> THEN 0
    ELSE pr[Head(ids)] * items[Head(ids)] + TotalAmount(Tail(ids), items, pr)

Init ==
    /\ stock \in [Products -> 1..MaxStock]
    /\ initStock = stock
    /\ price = [p \in Products |-> 1]
    /\ deleted = {}
    /\ carts = [u \in Users |-> 0]
    /\ cartItems = [id \in Users \X Products |-> NoRow]
    /\ orders = <<>>
    /\ idem = [id \in Users \X Keys |-> -1]
    /\ locks = [p \in Products |-> 0]
    /\ proc = [w \in Procs |-> IdleRec]
    /\ prev = NoPrev
    /\ nreq = 0

db == <<stock, price, deleted, carts, cartItems, orders, idem>>

\* A request is accepted while the request budget lasts.
Accept == nreq < MaxRequests /\ nreq' = nreq + 1

Finish(w, res) ==
    proc' = [proc EXCEPT ![w].pc = "done", ![w].result = res]

(***************************************************************************)
(* CartService                                                             *)
(***************************************************************************)

\* GetOrCreateCart's CreateCart, reached when GetCartByUserID found no row:
\* INSERT INTO carts, refused by the UNIQUE user_id when a row exists by now.
GetOrCreateCart_CreateCart(w) ==
    /\ proc[w].pc = "goc_create"
    /\ LET created == CreateCart(carts, proc[w].user) IN
       IF created = carts
       THEN /\ Finish(w, "StorageFailure")
            /\ UNCHANGED carts
       ELSE /\ carts' = created
            /\ IF proc[w].op = "GetCart" THEN Finish(w, "ok")
               ELSE proc' = [proc EXCEPT ![w].pc = "atc_product"]
    /\ UNCHANGED <<stock, deleted, initStock, price, cartItems, orders, idem, locks, prev, nreq>>

\* The product verified without the check of its stock against the quantity.
AddToCart_VerifyProductNoStockCheck(r) ==
    LET p == r.prod IN
    IF ~GetProductByID(deleted, p) THEN [r EXCEPT !.pc = "done", !.result = "ProductNotFound"]
    ELSE [r EXCEPT !.pc = "atc_item", !.snap[p] = stock[p]]

\* AddToCart's GetProductByID and first stock check, on the request r.
AddToCart_VerifyProduct(r) ==
    LET p == r.prod IN
    IF ~GetProductByID(deleted, p) THEN [r EXCEPT !.pc = "done", !.result = "ProductNotFound"]
    ELSE IF stock[p] < r.qty THEN [r EXCEPT !.pc = "done", !.result = "InsufficientStock"]
    ELSE [r EXCEPT !.pc = "atc_item", !.snap[p] = stock[p]]

\* AddToCart up to its first statement on rows that change: GetOrCreateCart's
\* GetCartByUserID and, when the cart exists, GetProductByID.
AddToCart(w, u, p, q) ==
    /\ proc[w].pc = "idle"
    /\ Accept
    /\ LET r == [IdleRec EXCEPT !.op = "AddToCart", !.user = u, !.cart = u, !.prod = p, !.qty = q] IN
       proc' = [proc EXCEPT ![w] =
            IF GetCartByUserID(carts, u) THEN AddToCart_VerifyProduct(r)
            ELSE [r EXCEPT !.pc = "goc_create"]]
    /\ UNCHANGED <<stock, deleted, initStock, price, carts, cartItems, orders, idem, locks, prev>>

\* AddToCart: GetProductByID after GetOrCreateCart created the cart.
AddToCart_GetProductByID(w) ==
    /\ proc[w].pc = "atc_product"
    /\ proc' = [proc EXCEPT ![w] = AddToCart_VerifyProduct(proc[w])]
    /\ UNCHANGED <<stock, deleted, initStock, price, carts, cartItems, orders, idem, locks, prev, nreq>>

\* AddToCart: GetCartItem (the active row) and the check of the merged quantity.
AddToCart_GetCartItem(w) ==
    /\ proc[w].pc = "atc_item"
    /\ LET p == proc[w].prod
           c == proc[w].cart
       IN IF GetCartItem(cartItems, c, p)
          THEN LET newQuantity == cartItems[<<c, p>>].qty + proc[w].qty IN
               IF proc[w].snap[p] < newQuantity
               THEN Finish(w, "InsufficientStock")
               ELSE proc' = [proc EXCEPT ![w].pc = "atc_update", ![w].seen = newQuantity]
          ELSE proc' = [proc EXCEPT ![w].pc = "atc_restore"]
    /\ UNCHANGED <<stock, deleted, initStock, price, carts, cartItems, orders, idem, locks, prev, nreq>>

\* AddToCart: UpdateCartItemQuantity of the active row that was read.
AddToCart_UpdateCartItemQuantity(w) ==
    /\ proc[w].pc = "atc_update"
    /\ LET p == proc[w].prod
           c == proc[w].cart
       IN IF GetCartItem(cartItems, c, p)
          THEN /\ cartItems' = UpdateCartItemQuantity(cartItems, c, p, proc[w].seen)
               /\ Finish(w, "ok")
          ELSE /\ UNCHANGED cartItems
               /\ Finish(w, "StorageFailure")
    /\ UNCHANGED <<stock, deleted, initStock, price, carts, orders, idem, locks, prev, nreq>>

\* AddToCart: RestoreCartItem; no row restored sends it on to CreateCartItem.
AddToCart_RestoreCartItem(w) ==
    /\ proc[w].pc = "atc_restore"
    /\ LET p == proc[w].prod
           c == proc[w].cart
       IN IF cartItems[<<c, p>>].st = "deleted"
          THEN /\ cartItems' = RestoreCartItem(cartItems, c, p, proc[w].qty)
               /\ Finish(w, "ok")
          ELSE /\ UNCHANGED cartItems
               /\ proc' = [proc EXCEPT ![w].pc = "atc_create"]
    /\ UNCHANGED <<stock, deleted, initStock, price, carts, orders, idem, locks, prev, nreq>>

\* AddToCart: CreateCartItem.
AddToCart_CreateCartItem(w) ==
    /\ proc[w].pc = "atc_create"
    /\ LET p == proc[w].prod
           c == proc[w].cart
           inserted == CreateCartItem(cartItems, c, p, proc[w].qty)
       IN IF inserted # cartItems
          THEN /\ cartItems' = inserted
               /\ Finish(w, "ok")
          ELSE /\ UNCHANGED cartItems
               /\ Finish(w, "StorageFailure")
    /\ UNCHANGED <<stock, deleted, initStock, price, carts, orders, idem, locks, prev, nreq>>

\* Any item taken as the caller's.
CartItemInAnyCart(itemCartID, cartID) == TRUE

\* UpdateCartItem's and RemoveCartItem's check that the item they fetched belongs
\* to the caller's cart: item.CartID != cart.ID is CartItemNotFound.
CartItemInCart(itemCartID, cartID) == itemCartID = cartID

\* GetCart: GetOrCreateCart's GetCartByUserID; buildCartResponse only reads.
GetCart(w, u) ==
    /\ proc[w].pc = "idle"
    /\ Accept
    /\ LET r == [IdleRec EXCEPT !.op = "GetCart", !.user = u, !.cart = u] IN
       proc' = [proc EXCEPT ![w] =
            IF GetCartByUserID(carts, u) THEN [r EXCEPT !.pc = "done", !.result = "ok"]
            ELSE [r EXCEPT !.pc = "goc_create"]]
    /\ UNCHANGED <<stock, deleted, initStock, price, carts, cartItems, orders, idem, locks, prev>>

\* UpdateCartItem: GetCartByUserID, GetCartItemByID and the ownership check.
UpdateCartItem(w, u, c, p, q) ==
    /\ proc[w].pc = "idle"
    /\ Accept
    /\ LET r == [IdleRec EXCEPT !.op = "UpdateCartItem", !.user = u, !.cart = c, !.prod = p,
                                !.qty = q] IN
       proc' = [proc EXCEPT ![w] =
            IF ~GetCartByUserID(carts, u)
            THEN [r EXCEPT !.pc = "done", !.result = "CartNotFound"]
            ELSE IF ~GetCartItem(cartItems, c, p)
            THEN [r EXCEPT !.pc = "done", !.result = "CartItemNotFound"]
            ELSE IF ~CartItemInCart(c, u)
            THEN [r EXCEPT !.pc = "done", !.result = "CartItemNotFound"]
            ELSE [r EXCEPT !.pc = "uci_product"]]
    /\ UNCHANGED <<stock, deleted, initStock, price, carts, cartItems, orders, idem, locks, prev>>

\* UpdateCartItem: GetProductByID and the stock check of the new quantity.
UpdateCartItem_GetProductByID(w) ==
    /\ proc[w].pc = "uci_product"
    /\ LET p == proc[w].prod IN
       IF ~GetProductByID(deleted, p) THEN Finish(w, "StorageFailure")
       ELSE IF stock[p] < proc[w].qty THEN Finish(w, "InsufficientStock")
       ELSE proc' = [proc EXCEPT ![w].pc = "uci_update"]
    /\ UNCHANGED <<stock, deleted, initStock, price, carts, cartItems, orders, idem, locks, prev, nreq>>

\* UpdateCartItem: UpdateCartItemQuantity; no row updated, or the quantity
\* refused by the column's CHECK, is an error.
UpdateCartItem_UpdateCartItemQuantity(w) ==
    /\ proc[w].pc = "uci_update"
    /\ LET p == proc[w].prod
           c == proc[w].cart
       IN IF GetCartItem(cartItems, c, p) /\ QuantityCheck(proc[w].qty)
          THEN /\ cartItems' = UpdateCartItemQuantity(cartItems, c, p, proc[w].qty)
               /\ Finish(w, "ok")
          ELSE /\ UNCHANGED cartItems
               /\ Finish(w, "StorageFailure")
    /\ UNCHANGED <<stock, deleted, initStock, price, carts, orders, idem, locks, prev, nreq>>

\* ClearCart: GetCartByUserID; no cart is nothing to clear.
ClearCart(w, u) ==
    /\ proc[w].pc = "idle"
    /\ Accept
    /\ LET r == [IdleRec EXCEPT !.op = "ClearCart", !.user = u, !.cart = u] IN
       proc' = [proc EXCEPT ![w] =
            IF ~GetCartByUserID(carts, u) THEN [r EXCEPT !.pc = "done", !.result = "ok"]
            ELSE [r EXCEPT !.pc = "cc_delete"]]
    /\ UNCHANGED <<stock, deleted, initStock, price, carts, cartItems, orders, idem, locks, prev>>

\* ClearCart: SoftDeleteCartItemsByCartID.
ClearCart_SoftDeleteCartItemsByCartID(w) ==
    /\ proc[w].pc = "cc_delete"
    /\ cartItems' = SoftDeleteCartItemsByCartID(cartItems, proc[w].cart)
    /\ Finish(w, "ok")
    /\ UNCHANGED <<stock, deleted, initStock, price, carts, orders, idem, locks, prev, nreq>>

\* RemoveCartItem: GetCartByUserID, GetCartItemByID and the ownership check.
RemoveCartItem(w, u, c, p) ==
    /\ proc[w].pc = "idle"
    /\ Accept
    /\ LET r == [IdleRec EXCEPT !.op = "RemoveCartItem", !.user = u, !.cart = c, !.prod = p] IN
       proc' = [proc EXCEPT ![w] =
            IF ~GetCartByUserID(carts, u)
            THEN [r EXCEPT !.pc = "done", !.result = "CartNotFound"]
            ELSE IF ~GetCartItem(cartItems, c, p)
            THEN [r EXCEPT !.pc = "done", !.result = "CartItemNotFound"]
            ELSE IF ~CartItemInCart(c, u)
            THEN [r EXCEPT !.pc = "done", !.result = "CartItemNotFound"]
            ELSE [r EXCEPT !.pc = "rci_delete"]]
    /\ UNCHANGED <<stock, deleted, initStock, price, carts, cartItems, orders, idem, locks, prev>>

\* RemoveCartItem: SoftDeleteCartItem.
RemoveCartItem_SoftDeleteCartItem(w) ==
    /\ proc[w].pc = "rci_delete"
    /\ cartItems' = SoftDeleteCartItem(cartItems, proc[w].cart, proc[w].prod)
    /\ Finish(w, "ok")
    /\ UNCHANGED <<stock, deleted, initStock, price, carts, orders, idem, locks, prev, nreq>>

(***************************************************************************)
(* OrderService: the cart-to-order conversion                              *)
(***************************************************************************)

\* The points of CreateOrderFromCart at which a storage statement may fail: the
\* statements of the transaction and, after its commit, buildOrderResponse.
FailPoints == {"none", "CreateOrder", "CreateOrderItem", "UpdateProductStock",
               "SoftDeleteCartItemsByCartID", "buildOrderResponse"}

\* The validation left out: every quantity passes.
InsufficientStockNever(productStock, quantity) == FALSE

\* CreateOrderFromCart's stock validation of one item, on the locked row's stock.
InsufficientStock(productStock, quantity) == productStock < quantity

\* The stock written back as it was read.
NewStockKept(productStock, quantity) == productStock

\* CreateOrderFromCart's new stock of an ordered product, from the locked row's stock.
NewStock(productStock, quantity) == productStock - quantity

\* The loop that creates the order items and writes the stock, over the cart items
\* in order; t is the transaction's view [orders, stock, cartItems, price] so far.
RECURSIVE OrderItemsLoop(_, _, _, _, _, _)
OrderItemsLoop(ids, items, snap, t, fail, failProd) ==
    IF ids = <<>> THEN [err |-> "ok", t |-> t]
    ELSE LET p == Head(ids)
             o == Len(t.orders)
         IN IF fail = "CreateOrderItem" /\ failProd = p
            THEN [err |-> "StorageFailure", t |-> t]
            ELSE LET t1 == [t EXCEPT !.orders[o].items[p] = items[p],
                                     !.orders[o].prices[p] = t.price[p]] IN
                 IF fail = "UpdateProductStock" /\ failProd = p
                 THEN [err |-> "StorageFailure", t |-> t1]
                 ELSE OrderItemsLoop(Tail(ids), items, snap,
                          [t1 EXCEPT !.stock = UpdateProductStock(@, p, NewStock(snap[p], items[p]))],
                          fail, failProd)

\* The function CreateOrderFromCart hands to ExecTx, from the rows the lock
\* returned (rows, snap) on: the error it returns and the writes it has made by then.
CreateOrderTx(u, items, rows, snap, t, fail, failProd) ==
    LET ids == ProductIDs(items) IN
    IF Cardinality(rows) # Cardinality(ids) THEN [err |-> "ProductNotFound", t |-> t]
    ELSE IF \E p \in ids : p \notin rows THEN [err |-> "ProductNotFound", t |-> t]
    ELSE IF \E p \in ids : InsufficientStock(snap[p], items[p])
         THEN [err |-> "InsufficientStock", t |-> t]
    ELSE IF fail = "CreateOrder" THEN [err |-> "StorageFailure", t |-> t]
    ELSE LET t1 == [t EXCEPT !.orders =
                        Append(@, [user |-> u, status |-> OrderStatusPending, items |-> NoItems,
                                   prices |-> NoItems,
                                   total |-> TotalAmount(SeqOfSet(ids), items, t.price)])]
             r == OrderItemsLoop(SeqOfSet(ids), items, snap, t1, fail, failProd)
         IN IF r.err # "ok" THEN r
            ELSE IF fail = "SoftDeleteCartItemsByCartID"
            THEN [err |-> "StorageFailure", t |-> r.t]
            ELSE [err |-> "ok",
                  t |-> [r.t EXCEPT !.cartItems = SoftDeleteCartItemsByCartID(@, u)]]

\* The writes kept whatever fn returned.
ExecTxCommitsAnyway(before, r) == r.t

\* SQLStore.ExecTx: roll back to the tables as they were when fn returned an
\* error, commit fn's writes otherwise.
ExecTx(before, r) == IF r.err # "ok" THEN before ELSE r.t

\* The ownership check applied to administrators as well.
GetOrderByID_CheckOwnerAlways(os, u, o, isAdmin) ==
    IF ~GetOrderByID(os, o) THEN "OrderNotFound"
    ELSE IF os[o].user # u THEN "UnauthorizedOrder"
    ELSE "ok"

\* OrderService.GetOrderByID's checks on the row it asked for: the error, or "ok"
\* to return the order.
GetOrderByID_Check(os, u, o, isAdmin) ==
    IF ~GetOrderByID(os, o) THEN "OrderNotFound"
    ELSE IF ~isAdmin /\ os[o].user # u THEN "UnauthorizedOrder"
    ELSE "ok"

\* OrderService.GetOrderByID: the store's GetOrderByID, the ownership check of a
\* caller who is not an administrator; buildOrderResponse only reads.
OrderService_GetOrderByID(w, u, o, isAdmin) ==
    /\ proc[w].pc = "idle"
    /\ Accept
    /\ LET r == [IdleRec EXCEPT !.op = "GetOrderByID", !.user = u, !.ord = o,
                                !.isAdmin = isAdmin, !.pc = "done"]
           e == GetOrderByID_Check(orders, u, o, isAdmin)
       IN proc' = [proc EXCEPT ![w] =
            IF e # "ok" THEN [r EXCEPT !.result = e]
            ELSE [r EXCEPT !.result = "ok", !.oid = o]]
    /\ UNCHANGED <<stock, deleted, initStock, price, carts, cartItems, orders, idem, locks, prev>>

\* The calls that may still insert an order.
Creating == {w \in Procs : proc[w].pc \in {"co_read", "co_lock", "co_tx"}}

\* CreateOrderFromCart's GetCartByUserID and ListCartItems, outside the
\* transaction, on the request r.
CreateOrderFromCart_Read(r) ==
    LET cartItemsRead == ListCartItems(cartItems, r.user) IN
    IF ~GetCartByUserID(carts, r.user) THEN [r EXCEPT !.pc = "done", !.result = "EmptyCart"]
    ELSE IF ProductIDs(cartItemsRead) = {} THEN [r EXCEPT !.pc = "done", !.result = "EmptyCart"]
    ELSE [r EXCEPT !.pc = "co_lock", !.items = cartItemsRead]

\* No registry row found, whatever the registry holds.
GetIdempotencyKeyNoRows(im, id) == FALSE

\* GetIdempotencyKey: a row of (user, key) is found.
GetIdempotencyKey(im, id) == im[id] # -1

\* No registry row taken as having an order.
OrderIDValidNever(im, id) == FALSE

\* existingKey.OrderID.Valid: the registry row found has an order id.
OrderIDValid(im, id) == im[id] > 0

\* CreateOrderWithIdempotency up to its first statement: with a key, GetIdempotencyKey
\* (and GetOrderByID(userID, existingKey.OrderID, false) for a key that has an
\* order); without one, CreateOrderFromCart's read of the cart.
CreateOrderWithIdempotency(w, u, k) ==
    /\ proc[w].pc = "idle"
    /\ Accept
    /\ LET r == [IdleRec EXCEPT !.op = "CreateOrder", !.user = u, !.cart = u, !.key = k] IN
       IF k # NoKey /\ GetIdempotencyKey(idem, <<u, k>>) /\ OrderIDValid(idem, <<u, k>>)
       THEN LET o == idem[<<u, k>>]
                e == GetOrderByID_Check(orders, u, o, FALSE)
            IN proc' = [proc EXCEPT ![w] =
                IF e # "ok" THEN [r EXCEPT !.pc = "done", !.result = e]
                ELSE [r EXCEPT !.pc = "done", !.result = "ok", !.oid = o]]
       ELSE IF k # NoKey /\ GetIdempotencyKey(idem, <<u, k>>)
       THEN proc' = [proc EXCEPT ![w] = [r EXCEPT !.pc = "done", !.result = "DuplicateOrder"]]
       ELSE /\ Len(orders) + Cardinality(Creating) < MaxOrders
            /\ proc' = [proc EXCEPT ![w] =
                    IF k = NoKey THEN CreateOrderFromCart_Read(r) ELSE [r EXCEPT !.pc = "co_read"]]
    /\ UNCHANGED <<stock, deleted, initStock, price, carts, cartItems, orders, idem, locks, prev>>

\* CreateOrderFromCart: the read of the cart, after GetIdempotencyKey found no row.
CreateOrderFromCart_ListCartItems(w) ==
    /\ proc[w].pc = "co_read"
    /\ proc' = [proc EXCEPT ![w] = CreateOrderFromCart_Read(proc[w])]
    /\ UNCHANGED <<stock, deleted, initStock, price, carts, cartItems, orders, idem, locks, prev, nreq>>

\* GetProductsByIDsForUpdate: the rows of the ids that are not deleted.
GetProductsByIDsForUpdate(del, ids) == ids \ del

\* CreateOrderFromCart: ExecTx begins and GetProductsByIDsForUpdate waits for, takes
\* and holds the row locks of the cart's products, returning the locked rows.
CreateOrderFromCart_GetProductsByIDsForUpdate(w) ==
    /\ proc[w].pc = "co_lock"
    /\ LET found == GetProductsByIDsForUpdate(deleted, ProductIDs(proc[w].items)) IN
       /\ \A p \in found : locks[p] = 0
       /\ locks' = [p \in Products |-> IF p \in found THEN w ELSE locks[p]]
       /\ proc' = [proc EXCEPT ![w].pc = "co_tx", ![w].rows = found,
                               ![w].snap = [p \in Products |-> IF p \in found THEN stock[p] ELSE 0]]
    /\ UNCHANGED <<stock, deleted, initStock, price, carts, cartItems, orders, idem, prev, nreq>>

\* CreateOrderFromCart: the rest of the transaction, its commit or rollback (which
\* releases the row locks), and buildOrderResponse, whose error is returned in
\* place of the order that was committed.
CreateOrderFromCart_ExecTx(w) ==
    /\ proc[w].pc = "co_tx"
    /\ \E fail \in FailPoints, failProd \in Products :
         LET before == [orders |-> orders, stock |-> stock, cartItems |-> cartItems,
                        price |-> price]
             r == CreateOrderTx(proc[w].user, proc[w].items, proc[w].rows, proc[w].snap,
                                before, fail, failProd)
             after == ExecTx(before, r)
         IN /\ orders' = after.orders
            /\ stock' = after.stock
            /\ cartItems' = after.cartItems
            /\ IF r.err # "ok" THEN Finish(w, r.err)
               ELSE IF fail = "buildOrderResponse"
               THEN proc' = [proc EXCEPT ![w].created = Len(r.t.orders), ![w].pc = "done",
                                         ![w].result = "StorageFailure"]
               ELSE proc' = [proc EXCEPT
                        ![w].oid = Len(r.t.orders), ![w].created = Len(r.t.orders),
                        ![w].result = IF proc[w].key = NoKey THEN "ok" ELSE "none",
                        ![w].pc = IF proc[w].key = NoKey THEN "done" ELSE "co_key"]
    /\ locks' = [p \in Products |-> IF locks[p] = w THEN 0 ELSE locks[p]]
    /\ UNCHANGED <<deleted, initStock, price, carts, idem, prev, nreq>>

\* The registry row written without its order id.
CreateIdempotencyKeyWithoutOrder(im, id, o) == IF im[id] = -1 THEN [im EXCEPT ![id] = 0] ELSE im

\* The registry row never written.
CreateIdempotencyKeyDropped(im, id, o) == im

\* CreateIdempotencyKey: INSERT of (user, key, order id), refused by
\* UNIQUE(user_id, idempotency_key) when a row exists.
CreateIdempotencyKey(im, id, o) == IF im[id] = -1 THEN [im EXCEPT ![id] = o] ELSE im

\* CreateOrderWithIdempotency: CreateIdempotencyKey after the order was created;
\* its error is dropped.
CreateOrderWithIdempotency_CreateIdempotencyKey(w) ==
    /\ proc[w].pc = "co_key"
    /\ idem' = CreateIdempotencyKey(idem, <<proc[w].user, proc[w].key>>, proc[w].oid)
    /\ Finish(w, "ok")
    /\ UNCHANGED <<stock, deleted, initStock, price, carts, cartItems, orders, locks, prev, nreq>>

(***************************************************************************)
(* OrderService: the order lifecycle                                       *)
(***************************************************************************)

\* The order item after product p in ListOrderItems' order, 0 past the last one.
NextItem(items, p) ==
    LET rest == {x \in ProductIDs(items) : x > p} IN
    IF rest = {} THEN 0 ELSE CHOOSE x \in rest : \A y \in rest : x <= y

\* CancelOrder moves on to the order item after the current one, or returns.
CancelOrder_Continue(w) ==
    LET n == NextItem(proc[w].items, proc[w].prod) IN
    IF n = 0
    THEN [proc EXCEPT ![w].pc = "done", ![w].result = "ok", ![w].oid = proc[w].ord]
    ELSE [proc EXCEPT ![w].pc = "can_get", ![w].prod = n]

\* The checks without the pending check.
CancelOrder_CheckOwnerOnly(os, u, o) ==
    IF ~GetOrderByID(os, o) THEN "OrderNotFound"
    ELSE IF os[o].user # u THEN "UnauthorizedOrder"
    ELSE "ok"

\* The checks with the pending check ahead of the ownership check.
CancelOrder_CheckStatusFirst(os, u, o) ==
    IF ~GetOrderByID(os, o) THEN "OrderNotFound"
    ELSE IF os[o].status # OrderStatusPending THEN "OrderNotCancellable"
    ELSE IF os[o].user # u THEN "UnauthorizedOrder"
    ELSE "ok"

\* CancelOrder's checks on the order it fetched: the error, or "ok" to go on.
CancelOrder_Check(os, u, o) ==
    IF ~GetOrderByID(os, o) THEN "OrderNotFound"
    ELSE IF os[o].user # u THEN "UnauthorizedOrder"
    ELSE IF os[o].status # OrderStatusPending THEN "OrderNotCancellable"
    ELSE "ok"

\* CancelOrder: GetOrderByID, the ownership check and the pending check.
CancelOrder(w, u, o) ==
    /\ proc[w].pc = "idle"
    /\ Accept
    /\ LET r == [IdleRec EXCEPT !.op = "CancelOrder", !.user = u, !.ord = o, !.stock0 = stock,
                    !.status0 = IF GetOrderByID(orders, o) THEN orders[o].status ELSE "none"]
           e == CancelOrder_Check(orders, u, o)
       IN proc' = [proc EXCEPT ![w] =
            IF e # "ok" THEN [r EXCEPT !.pc = "done", !.result = e]
            ELSE [r EXCEPT !.pc = "can_status"]]
    /\ UNCHANGED <<stock, deleted, initStock, price, carts, cartItems, orders, idem, locks, prev>>

\* CancelOrder: UpdateOrderStatus to cancelled, then ListOrderItems.
CancelOrder_UpdateOrderStatus(w) ==
    /\ proc[w].pc = "can_status"
    /\ orders' = UpdateOrderStatusRow(orders, proc[w].ord, OrderStatusCancelled)
    /\ LET orderItems == orders[proc[w].ord].items IN
       proc' = [proc EXCEPT ![w].items = orderItems, ![w].pc = "can_get",
                            ![w].prod = NextItem(orderItems, 0)]
    /\ UNCHANGED <<stock, deleted, initStock, price, carts, cartItems, idem, locks, prev, nreq>>

\* CancelOrder's loop: GetProductByID of the current item; an error skips the item.
CancelOrder_GetProductByID(w) ==
    /\ proc[w].pc = "can_get"
    /\ LET p == proc[w].prod IN
       IF ~GetProductByID(deleted, p)
       THEN proc' = CancelOrder_Continue(w)
       ELSE proc' = [proc EXCEPT ![w].pc = "can_stock", ![w].snap[p] = stock[p]]
    /\ UNCHANGED <<stock, deleted, initStock, price, carts, cartItems, orders, idem, locks, prev, nreq>>

\* CancelOrder's loop: UpdateProductStock to the stock read plus the item's
\* quantity. The UPDATE waits for the row's lock; it returns no row, an error,
\* when the product was deleted meanwhile.
CancelOrder_UpdateProductStock(w) ==
    /\ proc[w].pc = "can_stock"
    /\ LET p == proc[w].prod
           newStock == proc[w].snap[p] + proc[w].items[p]
       IN /\ locks[p] = 0
          /\ newStock <= StockLimit
          /\ IF ~GetProductByID(deleted, p)
             THEN /\ Finish(w, "StorageFailure")
                  /\ UNCHANGED stock
             ELSE /\ stock' = UpdateProductStock(stock, p, newStock)
                  /\ proc' = CancelOrder_Continue(w)
    /\ UNCHANGED <<deleted, initStock, price, carts, cartItems, orders, idem, locks, prev, nreq>>

\* UpdateOrderStatus: isValidOrderStatus, then the UPDATE of the order's row.
UpdateOrderStatus(w, o, s) ==
    /\ proc[w].pc = "idle"
    /\ Accept
    /\ LET r == [IdleRec EXCEPT !.op = "UpdateOrderStatus", !.ord = o, !.pc = "done",
                    !.status = s,
                    !.status0 = IF GetOrderByID(orders, o) THEN orders[o].status ELSE "none"] IN
       IF ~isValidOrderStatus(s)
       THEN /\ proc' = [proc EXCEPT ![w] = [r EXCEPT !.result = "InvalidStatus"]]
            /\ UNCHANGED orders
       ELSE IF ~GetOrderByID(orders, o)
       THEN /\ proc' = [proc EXCEPT ![w] = [r EXCEPT !.result = "OrderNotFound"]]
            /\ UNCHANGED orders
       ELSE /\ proc' = [proc EXCEPT ![w] = [r EXCEPT !.result = "ok", !.oid = o]]
            /\ orders' = UpdateOrderStatusRow(orders, o, s)
    /\ UNCHANGED <<stock, deleted, initStock, price, carts, cartItems, idem, locks, prev>>

(***************************************************************************)
(* ProductService                                                          *)
(***************************************************************************)

\* DeleteProductByID: SoftDeleteProduct, an UPDATE that waits for the row's lock.
DeleteProductByID(w, p) ==
    /\ proc[w].pc = "idle"
    /\ Accept
    /\ locks[p] = 0
    /\ p \notin deleted
    /\ deleted' = deleted \cup {p}
    /\ proc' = [proc EXCEPT ![w] =
            [IdleRec EXCEPT !.op = "DeleteProductByID", !.prod = p, !.pc = "done", !.result = "ok"]]
    /\ UNCHANGED <<stock, initStock, price, carts, cartItems, orders, idem, locks, prev>>

\* UpdateProductByID: GetProductByID, then UpdateProduct, an UPDATE of the row's
\* price and stock (with the other columns) that waits for the row's lock.
UpdateProductByID(w, p, newPrice, newStock) ==
    /\ proc[w].pc = "idle"
    /\ Accept
    /\ locks[p] = 0
    /\ LET r == [IdleRec EXCEPT !.op = "UpdateProductByID", !.prod = p, !.pc = "done"] IN
       IF ~GetProductByID(deleted, p)
       THEN /\ proc' = [proc EXCEPT ![w] = [r EXCEPT !.result = "ProductNotFound"]]
            /\ UNCHANGED <<price, stock>>
       ELSE /\ proc' = [proc EXCEPT ![w] = [r EXCEPT !.result = "ok"]]
            /\ price' = [price EXCEPT ![p] = newPrice]
            /\ stock' = UpdateProductStock(stock, p, newStock)
    /\ UNCHANGED <<deleted, initStock, carts, cartItems, orders, idem, locks, prev>>

(***************************************************************************)
(* Workers                                                                 *)
(***************************************************************************)

\* The response is sent; the worker is free for the next request.
Return(w) ==
    /\ proc[w].pc = "done"
    /\ proc' = [proc EXCEPT ![w] = IdleRec]
    /\ UNCHANGED <<stock, deleted, initStock, price, carts, cartItems, orders, idem, locks, prev, nreq>>

\* The same, with the request remembered as the last one completed.
ReturnRecord(w) ==
    /\ proc[w].pc = "done"
    /\ prev' = [op |-> proc[w].op, user |-> proc[w].user, key |-> proc[w].key,
                prod |-> proc[w].prod, ord |-> proc[w].ord, result |-> proc[w].result,
                oid |-> proc[w].oid, created |-> proc[w].created, stock |-> stock]
    /\ proc' = [proc EXCEPT ![w] = IdleRec]
    /\ UNCHANGED <<stock, deleted, initStock, price, carts, cartItems, orders, idem, locks, nreq>>

Request(w) ==
    \/ \E u \in Users, p \in Products, q \in 1..MaxQty : AddToCart(w, u, p, q)
    \/ \E u \in Users, c \in Users, p \in Products : RemoveCartItem(w, u, c, p)
    \/ \E u \in Users, k \in Keys \cup {NoKey} : CreateOrderWithIdempotency(w, u, k)
    \/ \E u \in Users, o \in 1..MaxOrders : CancelOrder(w, u, o)
    \/ \E o \in 1..MaxOrders, s \in StatusInputs : UpdateOrderStatus(w, o, s)
    \/ \E p \in Products : DeleteProductByID(w, p)

\* The other cart requests.
CartRequest(w) ==
    \/ \E u \in Users : GetCart(w, u)
    \/ \E u \in Users, c \in Users, p \in Products, q \in 0..MaxQty : UpdateCartItem(w, u, c, p, q)
    \/ \E u \in Users : ClearCart(w, u)

\* The reads of an order, by a user or by an administrator.
OrderReadRequest(w) ==
    \E u \in Users, o \in 1..MaxOrders, isAdmin \in BOOLEAN :
        OrderService_GetOrderByID(w, u, o, isAdmin)

\* The administrator's update of a product.
ProductRequest(w) ==
    \E p \in Products, newPrice \in 1..MaxPrice, newStock \in 0..MaxStock :
        UpdateProductByID(w, p, newPrice, newStock)

Step(w) ==
    \/ GetOrCreateCart_CreateCart(w)
    \/ AddToCart_GetProductByID(w)
    \/ AddToCart_GetCartItem(w)
    \/ AddToCart_UpdateCartItemQuantity(w)
    \/ AddToCart_RestoreCartItem(w)
    \/ AddToCart_CreateCartItem(w)
    \/ RemoveCartItem_SoftDeleteCartItem(w)
    \/ CreateOrderFromCart_ListCartItems(w)
    \/ CreateOrderFromCart_GetProductsByIDsForUpdate(w)
    \/ CreateOrderFromCart_ExecTx(w)
    \/ CreateOrderWithIdempotency_CreateIdempotencyKey(w)
    \/ CancelOrder_UpdateOrderStatus(w)
    \/ CancelOrder_GetProductByID(w)
    \/ CancelOrder_UpdateProductStock(w)

CartStep(w) ==
    \/ UpdateCartItem_GetProductByID(w)
    \/ UpdateCartItem_UpdateCartItemQuantity(w)
    \/ ClearCart_SoftDeleteCartItemsByCartID(w)

Next ==
    \E w \in Procs :
        \/ Request(w) \/ CartRequest(w) \/ ProductRequest(w) \/ OrderReadRequest(w)
        \/ Step(w) \/ CartStep(w)
        \/ Return(w)

Spec == Init /\ [][Next]_vars

\* One request at a time: a single worker, each request run to its end before
\* the next one starts.
SeqNext == Request(1) \/ Step(1) \/ ReturnRecord(1)

SeqSpec == Init /\ [][SeqNext]_vars

\* Concurrent conversions and nothing else: carts already filled, stock at any
\* level (also below a cart's quantity), some products deleted; the workers only
\* create orders, OrderCalls of them.
InitOrders ==
    /\ stock \in [Products -> 0..MaxStock]
    /\ initStock = stock
    /\ price = [p \in Products |-> 1]
    /\ deleted \in SUBSET Products
    /\ carts = [u \in Users |-> 1]
    /\ cartItems \in [Users \X Products ->
            {NoRow} \cup {[st |-> "active", qty |-> q, n |-> 1] : q \in 1..MaxQty}]
    /\ orders = <<>>
    /\ idem = [id \in Users \X Keys |-> -1]
    /\ locks = [p \in Products |-> 0]
    /\ proc = [w \in Procs |-> IdleRec]
    /\ prev = NoPrev
    /\ nreq = MaxRequests - OrderCalls

OrderStep(w) ==
    \/ \E u \in Users, k \in Keys \cup {NoKey} : CreateOrderWithIdempotency(w, u, k)
    \/ CreateOrderFromCart_ListCartItems(w)
    \/ CreateOrderFromCart_GetProductsByIDsForUpdate(w)
    \/ CreateOrderFromCart_ExecTx(w)
    \/ CreateOrderWithIdempotency_CreateIdempotencyKey(w)
    \/ Return(w)

OrderNext == \E w \in Procs : OrderStep(w)

OrderSpec == InitOrders /\ [][OrderNext]_vars

\* Concurrent conversions on filled carts with ample or short stock, the registry
\* holding for some (user, key) a row whose order_id is NULL, as the table
\* order_idempotency_keys allows.
InitKeys ==
    /\ stock \in [Products -> 1..MaxStock]
    /\ initStock = stock
    /\ price = [p \in Products |-> 1]
    /\ deleted = {}
    /\ carts = [u \in Users |-> 1]
    /\ cartItems \in [Users \X Products ->
            {NoRow} \cup {[st |-> "active", qty |-> q, n |-> 1] : q \in 1..MaxQty}]
    /\ orders = <<>>
    /\ idem \in [Users \X Keys -> {-1, 0}]
    /\ locks = [p \in Products |-> 0]
    /\ proc = [w \in Procs |-> IdleRec]
    /\ prev = NoPrev
    /\ nreq = MaxRequests - OrderCalls

KeySpec == InitKeys /\ [][OrderNext]_vars

\* Concurrent cart requests from the empty database, CartCalls of them: every
\* cart operation and the conversion of a cart into an order (without a key).
InitCarts ==
    /\ stock \in [Products -> 1..MaxStock]
    /\ initStock = stock
    /\ price = [p \in Products |-> 1]
    /\ deleted = {}
    /\ carts = [u \in Users |-> 0]
    /\ cartItems = [id \in Users \X Products |-> NoRow]
    /\ orders = <<>>
    /\ idem = [id \in Users \X Keys |-> -1]
    /\ locks = [p \in Products |-> 0]
    /\ proc = [w \in Procs |-> IdleRec]
    /\ prev = NoPrev
    /\ nreq = MaxRequests - CartCalls

CartAction(w) ==
    \/ \E u \in Users, p \in Products, q \in 1..MaxQty : AddToCart(w, u, p, q)
    \/ \E u \in Users, c \in Users, p \in Products : RemoveCartItem(w, u, c, p)
    \/ CartRequest(w)
    \/ \E u \in Users : CreateOrderWithIdempotency(w, u, NoKey)
    \/ GetOrCreateCart_CreateCart(w)
    \/ AddToCart_GetProductByID(w)
    \/ AddToCart_GetCartItem(w)
    \/ AddToCart_UpdateCartItemQuantity(w)
    \/ AddToCart_RestoreCartItem(w)
    \/ AddToCart_CreateCartItem(w)
    \/ RemoveCartItem_SoftDeleteCartItem(w)
    \/ CartStep(w)
    \/ CreateOrderFromCart_GetProductsByIDsForUpdate(w)
    \/ CreateOrderFromCart_ExecTx(w)
    \/ Return(w)

CartNext == \E w \in Procs : CartAction(w)

CartSpec == InitCarts /\ [][CartNext]_vars

\* One request at a time, the administrator's product updates among them.
AdminNext == Request(1) \/ ProductRequest(1) \/ Step(1) \/ ReturnRecord(1)

AdminSpec == Init /\ [][AdminNext]_vars

\* The life of orders, one request at a time, from filled carts: conversions
\* (without a key), cancellations, status updates and reads, LifecycleCalls of them.
InitLifecycle ==
    /\ stock \in [Products -> 1..MaxStock]
    /\ initStock = stock
    /\ price = [p \in Products |-> 1]
    /\ deleted = {}
    /\ carts = [u \in Users |-> 1]
    /\ cartItems \in [Users \X Products ->
            {NoRow} \cup {[st |-> "active", qty |-> q, n |-> 1] : q \in 1..MaxQty}]
    /\ orders = <<>>
    /\ idem = [id \in Users \X Keys |-> -1]
    /\ locks = [p \in Products |-> 0]
    /\ proc = [w \in Procs |-> IdleRec]
    /\ prev = NoPrev
    /\ nreq = MaxRequests - LifecycleCalls

LifecycleNext ==
    \/ \E u \in Users : CreateOrderWithIdempotency(1, u, NoKey)
    \/ CreateOrderFromCart_GetProductsByIDsForUpdate(1)
    \/ CreateOrderFromCart_ExecTx(1)
    \/ \E u \in Users, o \in 1..MaxOrders : CancelOrder(1, u, o)
    \/ CancelOrder_UpdateOrderStatus(1)
    \/ CancelOrder_GetProductByID(1)
    \/ CancelOrder_UpdateProductStock(1)
    \/ \E o \in 1..MaxOrders, s \in StatusInputs : UpdateOrderStatus(1, o, s)
    \/ OrderReadRequest(1)
    \/ Return(1)

LifecycleSpec == InitLifecycle /\ [][LifecycleNext]_vars

\* Concurrent conversions and cancellations and nothing else, from filled carts
\* with stock for them, CancelCalls of them.
InitCancel ==
    /\ stock \in [Products -> 1..MaxStock]
    /\ initStock = stock
    /\ price = [p \in Products |-> 1]
    /\ deleted = {}
    /\ carts = [u \in Users |-> 1]
    /\ cartItems \in [Users \X Products ->
            {NoRow} \cup {[st |-> "active", qty |-> q, n |-> 1] : q \in 1..MaxQty}]
    /\ orders = <<>>
    /\ idem = [id \in Users \X Keys |-> -1]
    /\ locks = [p \in Products |-> 0]
    /\ proc = [w \in Procs |-> IdleRec]
    /\ prev = NoPrev
    /\ nreq = MaxRequests - CancelCalls

CancelStep(w) ==
    \/ \E u \in Users : CreateOrderWithIdempotency(w, u, NoKey)
    \/ CreateOrderFromCart_GetProductsByIDsForUpdate(w)
    \/ CreateOrderFromCart_ExecTx(w)
    \/ \E u \in Users, o \in 1..MaxOrders : CancelOrder(w, u, o)
    \/ CancelOrder_UpdateOrderStatus(w)
    \/ CancelOrder_GetProductByID(w)
    \/ CancelOrder_UpdateProductStock(w)
    \/ Return(w)

CancelNext == \E w \in Procs : CancelStep(w)

CancelSpec == InitCancel /\ [][CancelNext]_vars

(***************************************************************************)
(* Properties                                                              *)
(***************************************************************************)

\* A conversion call that has returned.
Converted(w) == proc[w].op = "CreateOrder" /\ proc[w].pc = "done"

\* The cart read held one unit of product p and nothing else.
OneUnitOf(items, p) == items = [x \in Products |-> IF x = p THEN 1 ELSE 0]

\* C1: in every reachable state, under any interleaving of concurrent
\* CreateOrderFromCart calls by any users over any carts, the stock of every
\* product is at least 0.
C1_StockNeverNegative == \A p \in Products : stock[p] >= 0

\* A product drained to 0 by one conversion while another one, whose cart also
\* holds it, found the locked stock at 0 and was refused.
C1_Witness ==
    \E p \in Products, w \in Procs :
        /\ initStock[p] > 0 /\ stock[p] = 0 /\ Len(orders) > 0
        /\ Converted(w) /\ proc[w].result = "InsufficientStock"
        /\ proc[w].items[p] > 0 /\ p \in proc[w].rows /\ proc[w].snap[p] = 0

\* C2: when two users, each with a cart of one unit of the same product whose
\* stock is 1, convert their carts concurrently (and no storage statement
\* fails), exactly one call succeeds and creates the only order, and the other
\* fails with InsufficientStock and creates nothing.
C2_ExactlyOneSucceeds ==
    \A w1, w2 \in Procs, p \in Products :
        ( /\ w1 # w2 /\ Converted(w1) /\ Converted(w2)
          /\ proc[w1].user # proc[w2].user
          /\ OneUnitOf(proc[w1].items, p) /\ OneUnitOf(proc[w2].items, p)
          /\ initStock[p] = 1 /\ p \notin deleted
          /\ proc[w1].result # "StorageFailure" /\ proc[w2].result # "StorageFailure" )
        => /\ {proc[w1].result, proc[w2].result} = {"ok", "InsufficientStock"}
           /\ Len(orders) = 1
           /\ stock[p] = 0
           /\ \A w \in {w1, w2} :
                IF proc[w].result = "ok"
                THEN proc[w].created = 1 /\ orders[1].user = proc[w].user
                ELSE proc[w].created = 0

\* Both calls have returned: one created the order, the other read the stock the
\* first one committed, 0, under the lock.
C2_Witness ==
    \E w1, w2 \in Procs, p \in Products :
        /\ w1 # w2 /\ Converted(w1) /\ Converted(w2)
        /\ proc[w1].user # proc[w2].user
        /\ OneUnitOf(proc[w1].items, p) /\ OneUnitOf(proc[w2].items, p)
        /\ initStock[p] = 1
        /\ proc[w1].result = "ok" /\ proc[w1].snap[p] = 1
        /\ proc[w2].result = "InsufficientStock" /\ proc[w2].snap[p] = 0

C4_FailedConversionWritesNothing ==
    [][\A w \in Procs :
        (proc'[w] # proc[w] /\ proc'[w].op = "CreateOrder" /\ proc'[w].created = 0)
        => UNCHANGED <<orders, stock, cartItems, idem>>]_vars

\* A two-item cart whose transaction passed validation and then met a storage
\* failure: no order, the stock as at the start, both items still active.
C4_Witness ==
    \E w \in Procs :
        /\ Converted(w) /\ proc[w].result = "StorageFailure"
        /\ ProductIDs(proc[w].items) = Products
        /\ orders = <<>> /\ stock = initStock
        /\ \A p \in Products : cartItems[<<proc[w].user, p>>].st = "active"

\* C5: two calls with the same user and non-empty key never both create an
\* order, and a call whose order is not the one the registry holds for its key
\* has failed with DuplicateOrder.
C5_NoDoubleSubmission ==
    /\ \A w1, w2 \in Procs :
        ( /\ w1 # w2 /\ proc[w1].op = "CreateOrder" /\ proc[w2].op = "CreateOrder"
          /\ proc[w1].key # NoKey /\ proc[w1].key = proc[w2].key
          /\ proc[w1].user = proc[w2].user )
        => ~(proc[w1].created > 0 /\ proc[w2].created > 0)
    /\ \A w \in Procs :
        ( /\ Converted(w) /\ proc[w].key # NoKey /\ proc[w].created > 0
          /\ idem[<<proc[w].user, proc[w].key>>] # proc[w].created )
        => proc[w].result = "DuplicateOrder"

\* A CancelOrder call that has returned after passing its checks.
Cancelled(w) ==
    proc[w].op = "CancelOrder" /\ proc[w].pc = "done" /\ proc[w].items # NoItems

\* C6: a cancellation that has returned either left the order cancelled with
\* every item's quantity added back to the stock, or was aborted with the order
\* still pending and the stock untouched.
C6_CancelRestoresOrAborts ==
    \A w \in Procs :
        Cancelled(w) =>
            \/ /\ orders[proc[w].ord].status = OrderStatusCancelled
               /\ \A p \in Products : stock[p] = proc[w].stock0[p] + proc[w].items[p]
            \/ /\ orders[proc[w].ord].status = OrderStatusPending
               /\ stock = proc[w].stock0

\* C7: a CancelOrder by the owner of a pending order that returns the order,
\* with no other request running, has set the status to cancelled and raised the
\* stock of each product by the quantity the order holds of it (by 0 for the
\* products not on the order).
C7_CancelAddsBackEachQuantity ==
    \A w \in Procs :
        (proc[w].op = "CancelOrder" /\ proc[w].pc = "done" /\ proc[w].result = "ok")
        => /\ orders[proc[w].ord].status = OrderStatusCancelled
           /\ \A p \in Products :
                stock[p] = proc[w].stock0[p] + orders[proc[w].ord].items[p]

\* C8 as stated: CancelOrder on an existing order that is not pending fails with
\* OrderNotCancellable, whoever calls it, and changes neither the order's status
\* nor any stock.
C8_AnyCallerNotCancellable ==
    \A w \in Procs :
        ( /\ proc[w].op = "CancelOrder" /\ proc[w].pc = "done"
          /\ proc[w].status0 \notin {"none", OrderStatusPending} )
        => /\ proc[w].result = "OrderNotCancellable"
           /\ orders[proc[w].ord].status = proc[w].status0
           /\ stock = proc[w].stock0

\* C8: CancelOrder by the owner of an order that is not pending (confirmed,
\* shipped, delivered or cancelled) fails with OrderNotCancellable and changes
\* neither the order's status nor any stock.
C8_OwnerNotCancellable ==
    \A w \in Procs :
        ( /\ proc[w].op = "CancelOrder" /\ proc[w].pc = "done"
          /\ proc[w].status0 \notin {"none", OrderStatusPending}
          /\ orders[proc[w].ord].user = proc[w].user )
        => /\ proc[w].result = "OrderNotCancellable"
           /\ orders[proc[w].ord].status = proc[w].status0
           /\ stock = proc[w].stock0

\* The second CancelOrder of an order, right after the one that cancelled it.
C8_Witness ==
    \E w \in Procs :
        /\ proc[w].op = "CancelOrder" /\ proc[w].pc = "done"
        /\ proc[w].status0 = OrderStatusCancelled
        /\ prev.op = "CancelOrder" /\ prev.result = "ok" /\ prev.ord = proc[w].ord
        /\ prev.user = proc[w].user
        /\ proc[w].result = "OrderNotCancellable"

\* C9: CancelOrder(userID, orderID) on an existing order of another user fails
\* with UnauthorizedOrder whatever the order's status, the ownership check coming
\* before the pending check, and leaves the order's status and all stock unchanged.
C9_NotOwnerUnauthorized ==
    \A w \in Procs :
        ( /\ proc[w].op = "CancelOrder" /\ proc[w].pc = "done"
          /\ GetOrderByID(orders, proc[w].ord)
          /\ orders[proc[w].ord].user # proc[w].user )
        => /\ proc[w].result = "UnauthorizedOrder"
           /\ orders[proc[w].ord].status = proc[w].status0
           /\ stock = proc[w].stock0

\* Another user's order that is not pending: the caller is told
\* UnauthorizedOrder, not OrderNotCancellable.
C9_Witness ==
    \E w \in Procs :
        /\ proc[w].op = "CancelOrder" /\ proc[w].pc = "done"
        /\ GetOrderByID(orders, proc[w].ord)
        /\ orders[proc[w].ord].user # proc[w].user
        /\ proc[w].status0 \notin {"none", OrderStatusPending}
        /\ proc[w].result = "UnauthorizedOrder"

\* C10: AddToCart(P, q2) right after the RemoveCartItem of the cart's item for P,
\* P having stock for q2, succeeds and leaves the one row of (cart, P) active
\* with quantity q2.
C10_ReAddAfterRemove ==
    \A w \in Procs :
        ( /\ proc[w].op = "AddToCart" /\ proc[w].pc = "done"
          /\ prev.op = "RemoveCartItem" /\ prev.result = "ok"
          /\ prev.user = proc[w].user /\ prev.prod = proc[w].prod
          /\ proc[w].prod \notin deleted /\ stock[proc[w].prod] >= proc[w].qty )
        => /\ proc[w].result = "ok"
           /\ cartItems[<<proc[w].user, proc[w].prod>>] = [st |-> "active", qty |-> proc[w].qty, n |-> 1]

\* The removed row is back: active, with the quantity of the second AddToCart.
C10_Witness ==
    \E w \in Procs :
        /\ proc[w].op = "AddToCart" /\ proc[w].pc = "done" /\ proc[w].result = "ok"
        /\ prev.op = "RemoveCartItem" /\ prev.result = "ok"
        /\ prev.user = proc[w].user /\ prev.prod = proc[w].prod
        /\ proc[w].qty = 1
        /\ cartItems[<<proc[w].user, proc[w].prod>>] = [st |-> "active", qty |-> 1, n |-> 1]

\* C11: every write of a product's stock by the order subsystem is made by a
\* request that holds the row lock of that product and computed the value from
\* the stock it read under that lock, which is the stock the write replaces.
C11_StockWrittenUnderLock ==
    [][\A p \in Products :
        stock'[p] # stock[p] =>
            \E w \in Procs : locks[p] = w /\ p \in proc[w].rows /\ proc[w].snap[p] = stock[p]]_vars

\* C12: a GetCart call, whose GetOrCreateCart may meet another call creating the
\* same user's cart, returns the cart: no call ends in an error.
C12_BothGetTheCart ==
    \A w \in Procs : (proc[w].op = "GetCart" /\ proc[w].pc = "done") => proc[w].result = "ok"

\* C13: each user has at most one carts row (no operation deletes a cart, so
\* every row is a non-deleted cart).
C13_OneCartPerUser == \A u \in Users : carts[u] <= 1

\* Two calls of one user both went to create the cart; the second insert was refused.
C13_Witness ==
    \E w1, w2 \in Procs :
        /\ proc[w1].op = "GetCart" /\ proc[w1].pc = "done" /\ proc[w1].result = "ok"
        /\ proc[w2].op = "GetCart" /\ proc[w2].pc = "done" /\ proc[w2].result = "StorageFailure"
        /\ proc[w1].user = proc[w2].user
        /\ carts[proc[w1].user] = 1

\* C14: there is at most one cart_items row per (cart, product), so at most one
\* non-deleted one, and every non-deleted row has a quantity above 0.
C14_OneItemPerProduct ==
    \A id \in Users \X Products :
        /\ cartItems[id].n <= 1
        /\ cartItems[id].st = "active" => cartItems[id].qty > 0

\* Two AddToCart calls of one user for one product both found no row; the
\* second CreateCartItem was refused and one active row exists.
C14_Witness ==
    \E w1, w2 \in Procs :
        /\ proc[w1].op = "AddToCart" /\ proc[w1].pc = "done" /\ proc[w1].result = "ok"
        /\ proc[w2].op = "AddToCart" /\ proc[w2].pc = "done"
        /\ proc[w2].result = "StorageFailure"
        /\ proc[w1].user = proc[w2].user /\ proc[w1].prod = proc[w2].prod
        /\ proc[w2].snap[proc[w2].prod] > 0 /\ proc[w2].seen = 0
        /\ cartItems[<<proc[w1].user, proc[w1].prod>>].st = "active"
        /\ cartItems[<<proc[w1].user, proc[w1].prod>>].n = 1

\* C15: a CreateOrderWithIdempotency call that finds a registry row with an order
\* id for its (user, key) returns that order at once and writes nothing: orders
\* and their items, stock, cart items and the registry stay as they are.
C15_ResolvedKeyReturnsOrder ==
    [][\A w \in Procs :
        ( /\ proc[w].pc = "idle" /\ proc'[w].op = "CreateOrder" /\ proc'[w].key # NoKey
          /\ idem[<<proc'[w].user, proc'[w].key>>] > 0 )
        => /\ proc'[w].pc = "done" /\ proc'[w].result = "ok"
           /\ proc'[w].oid = idem[<<proc'[w].user, proc'[w].key>>]
           /\ proc'[w].created = 0
           /\ UNCHANGED <<orders, stock, cartItems, idem>>]_vars

\* The call returned the registered order while the user's cart holds items
\* again, other than the order's.
C15_Witness ==
    \E w \in Procs :
        /\ Converted(w) /\ proc[w].key # NoKey /\ proc[w].result = "ok"
        /\ proc[w].created = 0
        /\ proc[w].oid = idem[<<proc[w].user, proc[w].key>>]
        /\ ProductIDs(ListCartItems(cartItems, proc[w].user)) # {}
        /\ ListCartItems(cartItems, proc[w].user) # orders[proc[w].oid].items

\* C16: a CreateOrderWithIdempotency call that finds a registry row without an
\* order id for its (user, key) fails at once with DuplicateOrder: the conversion
\* is not started, no order is created, stock, cart items and registry are unchanged.
C16_PendingKeyIsDuplicate ==
    [][\A w \in Procs :
        ( /\ proc[w].pc = "idle" /\ proc'[w].op = "CreateOrder" /\ proc'[w].key # NoKey
          /\ idem[<<proc'[w].user, proc'[w].key>>] = 0 )
        => /\ proc'[w].pc = "done" /\ proc'[w].result = "DuplicateOrder"
           /\ proc'[w].created = 0
           /\ UNCHANGED <<orders, stock, cartItems, idem>>]_vars

\* The call was refused although its cart could have been converted.
C16_Witness ==
    \E w \in Procs :
        /\ Converted(w) /\ proc[w].result = "DuplicateOrder"
        /\ idem[<<proc[w].user, proc[w].key>>] = 0
        /\ orders = <<>> /\ stock = initStock
        /\ ProductIDs(ListCartItems(cartItems, proc[w].user)) # {}
        /\ \A p \in Products : ListCartItems(cartItems, proc[w].user)[p] <= stock[p]

\* C17: UpdateOrderStatus with a status string that is not one of the five names
\* returns the validation error, for an order that exists or not, and writes
\* nothing: no order's status changes.
C17_InvalidStatusRejected ==
    [][\A w \in Procs :
        ( /\ proc[w].pc = "idle" /\ proc'[w].op = "UpdateOrderStatus"
          /\ proc'[w].status \notin Statuses )
        => /\ proc'[w].pc = "done" /\ proc'[w].result = "InvalidStatus"
           /\ UNCHANGED <<orders, stock, cartItems, idem>>]_vars

\* An unknown status was refused for a pending order, which is still pending.
C17_Witness ==
    \E w \in Procs :
        /\ proc[w].op = "UpdateOrderStatus" /\ proc[w].pc = "done"
        /\ proc[w].status \notin Statuses
        /\ proc[w].result = "InvalidStatus"
        /\ GetOrderByID(orders, proc[w].ord)
        /\ orders[proc[w].ord].status = OrderStatusPending

\* C18: UpdateOrderStatus with one of the five names sets the status of an
\* existing order to it, whatever the status was, and changes nothing else of
\* that order, no other order, no stock and no cart; for an order that does not
\* exist it fails with OrderNotFound and changes nothing.
C18_StatusWritten ==
    [][\A w \in Procs :
        ( /\ proc[w].pc = "idle" /\ proc'[w].op = "UpdateOrderStatus"
          /\ proc'[w].status \in Statuses )
        => /\ proc'[w].pc = "done"
           /\ UNCHANGED <<stock, cartItems, idem>>
           /\ IF proc'[w].ord \in 1..Len(orders)
              THEN /\ proc'[w].result = "ok"
                   /\ orders' = [orders EXCEPT ![proc'[w].ord].status = proc'[w].status]
              ELSE /\ proc'[w].result = "OrderNotFound"
                   /\ orders' = orders]_vars

\* A cancelled order was set back to pending.
C18_Witness ==
    \E w \in Procs :
        /\ proc[w].op = "UpdateOrderStatus" /\ proc[w].pc = "done" /\ proc[w].result = "ok"
        /\ proc[w].status0 = OrderStatusCancelled
        /\ proc[w].status = OrderStatusPending
        /\ orders[proc[w].ord].status = OrderStatusPending

\* C19 as stated: UpdateCartItem and RemoveCartItem on an active item of another
\* user's cart fail with CartItemNotFound, whether or not the caller has a cart,
\* and leave the item as it is.
C19_CrossCartNotFound ==
    [][\A w \in Procs :
        ( /\ proc[w].pc = "idle" /\ proc'[w].op \in {"UpdateCartItem", "RemoveCartItem"}
          /\ proc'[w].cart # proc'[w].user
          /\ GetCartItem(cartItems, proc'[w].cart, proc'[w].prod) )
        => /\ proc'[w].pc = "done" /\ proc'[w].result = "CartItemNotFound"
           /\ UNCHANGED cartItems]_vars

\* C19: UpdateCartItem and RemoveCartItem called by a user who has a cart, on an
\* active item of another user's cart, fail with CartItemNotFound and leave the
\* item as it is.
C19_CrossCartNotFoundWithCart ==
    [][\A w \in Procs :
        ( /\ proc[w].pc = "idle" /\ proc'[w].op \in {"UpdateCartItem", "RemoveCartItem"}
          /\ proc'[w].cart # proc'[w].user
          /\ GetCartByUserID(carts, proc'[w].user)
          /\ GetCartItem(cartItems, proc'[w].cart, proc'[w].prod) )
        => /\ proc'[w].pc = "done" /\ proc'[w].result = "CartItemNotFound"
           /\ UNCHANGED cartItems]_vars

\* A user with a cart was refused the update of another user's active item.
C19_Witness ==
    \E w \in Procs :
        /\ proc[w].op = "UpdateCartItem" /\ proc[w].pc = "done"
        /\ proc[w].cart # proc[w].user
        /\ GetCartByUserID(carts, proc[w].user)
        /\ GetCartItem(cartItems, proc[w].cart, proc[w].prod)
        /\ proc[w].qty > 0 /\ proc[w].qty # cartItems[<<proc[w].cart, proc[w].prod>>].qty
        /\ proc[w].result = "CartItemNotFound"

\* C20: no step changes an order's owner, its total, its items, or any item's
\* quantity or price, and no order disappears: of an order only the status changes.
C20_OrdersImmutable ==
    [][\A o \in 1..Len(orders) :
        /\ o <= Len(orders')
        /\ orders'[o].user = orders[o].user
        /\ orders'[o].total = orders[o].total
        /\ orders'[o].items = orders[o].items
        /\ orders'[o].prices = orders[o].prices]_vars

\* An order keeps the price it was created at, and the total made of it, after
\* the product's price was changed and the order's status written.
C20_Witness ==
    \E o \in 1..Len(orders), p \in Products :
        /\ orders[o].items[p] > 0
        /\ orders[o].prices[p] # price[p]
        /\ orders[o].total = TotalAmount(SeqOfSet(ProductIDs(orders[o].items)),
                                         orders[o].items, orders[o].prices)
        /\ orders[o].status # OrderStatusPending

\* C21: GetOrderByID(userID, orderID, isAdmin) on an existing order returns it
\* when isAdmin is true or the order's owner is userID and fails with
\* UnauthorizedOrder otherwise; on an order that does not exist it fails with
\* OrderNotFound whatever isAdmin is. It writes nothing.
C21_GetOrderByIDGated ==
    [][\A w \in Procs :
        (proc[w].pc = "idle" /\ proc'[w].op = "GetOrderByID")
        => /\ proc'[w].pc = "done"
           /\ UNCHANGED <<orders, stock, cartItems, idem>>
           /\ IF proc'[w].ord \notin 1..Len(orders)
              THEN proc'[w].result = "OrderNotFound"
              ELSE IF proc'[w].isAdmin \/ orders[proc'[w].ord].user = proc'[w].user
              THEN proc'[w].result = "ok" /\ proc'[w].oid = proc'[w].ord
              ELSE proc'[w].result = "UnauthorizedOrder"]_vars

\* An administrator was given an order of a user other than the one named in the call.
C21_Witness ==
    \E w \in Procs :
        /\ proc[w].op = "GetOrderByID" /\ proc[w].pc = "done"
        /\ proc[w].isAdmin
        /\ GetOrderByID(orders, proc[w].ord)
        /\ orders[proc[w].ord].user # proc[w].user
        /\ proc[w].result = "ok" /\ proc[w].oid = proc[w].ord

\* C22: AddToCart(user, P, q), with no other request running, fails with
\* ProductNotFound when P does not exist and with InsufficientStock when P's
\* stock is below q or below the active item's quantity plus q; no step of a call
\* that does not succeed creates, restores or changes a cart item; a call that
\* succeeds leaves the item of P active with a quantity of at most the stock it read.
C22_AddToCartChecked ==
    [][\A w \in Procs :
        (proc'[w].op = "AddToCart" /\ proc'[w] # proc[w]) =>
            LET p == proc'[w].prod
                q == proc'[w].qty
                id == <<proc'[w].user, proc'[w].prod>>
            IN /\ proc'[w].result # "ok" => UNCHANGED cartItems
               /\ proc'[w].pc = "done" =>
                    /\ p \in deleted => proc'[w].result = "ProductNotFound"
                    /\ (p \notin deleted /\ stock[p] < q) => proc'[w].result = "InsufficientStock"
                    /\ (p \notin deleted /\ cartItems[id].st = "active"
                          /\ stock[p] < cartItems[id].qty + q)
                       => proc'[w].result = "InsufficientStock"
                    /\ proc'[w].result = "ok" =>
                          /\ cartItems'[id].st = "active"
                          /\ cartItems'[id].qty <= proc'[w].snap[p]]_vars

\* The stock covers the quantity asked for but not the quantity the cart would
\* hold: the call was refused and the item has the quantity it had.
C22_Witness ==
    \E w \in Procs :
        LET id == <<proc[w].user, proc[w].prod>> IN
        /\ proc[w].op = "AddToCart" /\ proc[w].pc = "done"
        /\ proc[w].result = "InsufficientStock"
        /\ proc[w].qty <= stock[proc[w].prod]
        /\ cartItems[id].st = "active"
        /\ cartItems[id].qty + proc[w].qty > stock[proc[w].prod]

\* C23: ClearCart(user) succeeds and creates nothing when the user has no cart;
\* otherwise it soft-deletes every active item of the user's cart, which is left
\* with no active item, and changes no item of another cart and no stock.
C23_ClearCartClearsOwnCart ==
    [][\A w \in Procs :
        /\ ( /\ proc[w].pc = "idle" /\ proc'[w].op = "ClearCart"
             /\ ~GetCartByUserID(carts, proc'[w].user) )
           => /\ proc'[w].pc = "done" /\ proc'[w].result = "ok"
              /\ UNCHANGED <<carts, cartItems, orders, stock, idem>>
        /\ (proc[w].pc = "cc_delete" /\ proc'[w] # proc[w])
           => /\ proc'[w].pc = "done" /\ proc'[w].result = "ok"
              /\ UNCHANGED <<carts, orders, stock, idem>>
              /\ \A id \in Users \X Products :
                    IF id[1] = proc[w].user /\ cartItems[id].st = "active"
                    THEN cartItems'[id] = [cartItems[id] EXCEPT !.st = "deleted"]
                    ELSE cartItems'[id] = cartItems[id]
              /\ \A p \in Products : cartItems'[<<proc[w].user, p>>].st # "active"]_vars

\* A cart was cleared of its item while the other user's cart kept its own.
C23_Witness ==
    \E w \in Procs, p1, p2 \in Products :
        LET u == proc[w].user IN
        /\ proc[w].op = "ClearCart" /\ proc[w].pc = "done" /\ proc[w].result = "ok"
        /\ cartItems[<<u, p1>>].st = "deleted"
        /\ \A p \in Products : cartItems[<<u, p>>].st # "active"
        /\ \E v \in Users \ {u} : cartItems[<<v, p2>>].st = "active"
        /\ stock = initStock

\* C24: of two concurrent CreateOrderFromCart calls of one user over the same
\* cart contents at most one creates an order: the call that gets the product
\* locks second creates no order from the cart items the first one converted
\* and soft-deleted.
C24_OneOrderPerCartContents ==
    \A w1, w2 \in Procs :
        ( /\ w1 # w2 /\ proc[w1].op = "CreateOrder" /\ proc[w2].op = "CreateOrder"
          /\ proc[w1].user = proc[w2].user
          /\ proc[w1].items = proc[w2].items /\ proc[w1].items # NoItems )
        => ~(proc[w1].created > 0 /\ proc[w2].created > 0)

\* C25: under any interleaving of AddToCart or UpdateCartItem with a
\* CreateOrderFromCart of the same user, every cart item the successful
\* conversion soft-deletes is on the created order with the quantity it had when
\* it was soft-deleted: nothing added to the cart is discarded without being ordered.
C25_DeletedItemsAreOrdered ==
    [][\A w \in Procs :
        (proc[w].pc = "co_tx" /\ proc'[w].created > 0) =>
            \A p \in Products :
                LET id == <<proc[w].user, p>> IN
                (cartItems[id].st = "active" /\ cartItems'[id].st = "deleted")
                => orders'[proc'[w].created].items[p] = cartItems[id].qty]_vars

\* The total quantity of product p on the orders of os that are not cancelled.
RECURSIVE QuantityOnOrders(_, _)
QuantityOnOrders(os, p) ==
    IF os = <<>> THEN 0
    ELSE (IF Head(os).status # OrderStatusCancelled THEN Head(os).items[p] ELSE 0)
         + QuantityOnOrders(Tail(os), p)

\* No operation is in flight.
Quiescent == \A w \in Procs : proc[w].pc \in {"idle", "done"}

\* C26: with no manual stock edits, under any interleaving of CreateOrderFromCart
\* and CancelOrder calls, whenever no operation is in flight the stock of every
\* product plus the quantity of it on the orders that are not cancelled equals
\* the product's initial stock.
C26_StockConserved ==
    Quiescent => \A p \in Products : stock[p] + QuantityOnOrders(orders, p) = initStock[p]

\* C27: two concurrent CancelOrder calls by the owner on the same pending order
\* add the order's quantities back to the stock once in total: when both have
\* returned, the stock of every product is what it was when they were called
\* plus the quantity the order holds of it.
C27_ConcurrentCancelsRestoreOnce ==
    \A w1, w2 \in Procs :
        ( /\ w1 # w2 /\ Cancelled(w1) /\ Cancelled(w2)
          /\ proc[w1].ord = proc[w2].ord
          /\ proc[w1].stock0 = proc[w2].stock0 )
        => \A p \in Products : stock[p] = proc[w1].stock0[p] + proc[w1].items[p]

\* C28: over any sequence of CancelOrder and UpdateOrderStatus calls on an order
\* its quantities are added back to the stock at most once, cancelling, setting
\* the status back to pending and cancelling again included. Every unit added
\* back was taken from the stock by the order, once: with one request at a time
\* and no stock edits, a product's stock never exceeds its initial stock.
C28_RestoredAtMostOnce == \A p \in Products : stock[p] <= initStock[p]

\* C29: a CreateOrderFromCart or CreateOrderWithIdempotency call that returns an
\* error has committed no order: the step at which it fails, a failure of
\* buildOrderResponse after the commit included, leaves orders, stock and cart
\* items as they were, so that a retry can still create the order.
C29_ErrorMeansNothingCommitted ==
    [][\A w \in Procs :
        ( /\ proc[w].pc # "done" /\ proc'[w].pc = "done" /\ proc'[w].op = "CreateOrder"
          /\ proc'[w].result # "ok" )
        => /\ UNCHANGED <<orders, stock, cartItems, idem>>
           /\ proc'[w].created = 0]_vars

\* C30: every entry of the idempotency registry has its order id set and points
\* to an existing order of the entry's user; no operation writes an entry
\* without an order id, and no CreateOrderWithIdempotency call ends in DuplicateOrder.
C30_RegistryEntriesResolved ==
    /\ \A id \in Users \X Keys :
          GetIdempotencyKey(idem, id) =>
            /\ idem[id] \in 1..Len(orders)
            /\ orders[idem[id]].user = id[1]
    /\ \A w \in Procs : proc[w].result # "DuplicateOrder"

\* Two calls with one (user, key) both created an order; the registry holds the
\* entry the first one wrote, with its order, and the second call was not refused.
C30_Witness ==
    \E w1, w2 \in Procs :
        LET id == <<proc[w1].user, proc[w1].key>> IN
        /\ w1 # w2 /\ Converted(w1) /\ Converted(w2)
        /\ proc[w1].key # NoKey /\ proc[w2].key = proc[w1].key /\ proc[w2].user = proc[w1].user
        /\ proc[w1].created > 0 /\ proc[w2].created > proc[w1].created
        /\ idem[id] = proc[w1].created
        /\ orders[idem[id]].user = proc[w1].user
        /\ proc[w2].result = "ok"

====
